---- MODULE Spec2Model ----
(***************************************************************************)
(* A model of csim.c, a set-associative cache simulator with LRU           *)
(* replacement.  The state is the program's globals plus the position of   *)
(* main; one action per step of main / replay_trace; access_data and the   *)
(* helpers it is built from are operators, computed as the C code computes *)
(* them.  Variables that the program does not hold (the history of the     *)
(* accesses, the counts of the records read, the unread rest of the trace  *)
(* file) are recorded next to it so that properties can be stated.         *)
(***************************************************************************)
EXTENDS Integers, Sequences, FiniteSets, TLC

\* ---------------------------------------------------------------- bounds

\* At most this many records are read from the trace file in one run.
MaxRecords == 4

\* Largest associativity (-E) among the accepted geometries.
MaxAssoc == 2

\* The number of set-index bits (-s) and block-offset bits (-b) tried.
SetBitsChoices == {1, 2}
BlockBitsChoices == {1, 2}

\* The addresses that occur in trace records.
Addrs == {0, 2, 4, 8}

\* ------------------------------------------------------------- constants

\* csim.c:20  #define ADDRESS_LENGTH 64 (the width of memory_address_t).
ADDRESS_LENGTH == 64

\* The width of int, the type of the operands of the pow macro.
INT_BITS == 32

\* csim.c:89  the initial min_lru_value.  ULONG_MAX is 2^64-1 (or 2^32-1);
\* the model's clock stays below 2 * MaxRecords + 2, so any value above that
\* behaves as ULONG_MAX does; this is the largest integer TLC represents.
ULONG_MAX == 2147483647

\* The largest int (INT_BITS wide).
INT_MAX == 2147483647
INT_MIN == (-INT_MAX) - 1

NULL == "NULL"

VARIABLES
    pc,                 \* where main is
    set_index_bits,     \* -s
    associativity,      \* -E
    block_offset_bits,  \* -b
    trace_filename,     \* -t, or NULL
    file_readable,      \* whether fopen(trace_filename, "r") succeeds
    shift_ub,           \* what this build makes of a shift by >= the width
    number_of_sets,
    block_size_bytes,
    set_index_mask,
    cache_memory,       \* [set index -> [line index -> cache_entry_t]]
    total_hits,
    total_misses,
    total_evictions,
    global_lru_counter,
    trace_file_pointer, \* NULL, or "FILE"
    printed,            \* the calls of printSummary, in order
    \* the history, not held by the program
    hist,               \* one entry per access_data call, in order
    ref,                \* the reference LRU model, fed the same accesses
    nLS,                \* L and S records read so far
    nM,                 \* M records read so far
    nOther,             \* records of any other kind read so far
    malformed,          \* the loop of replay_trace ended on a malformed line
    unread              \* the lines of the file after that malformed line

vars == <<pc, set_index_bits, associativity, block_offset_bits, trace_filename,
          file_readable, shift_ub, number_of_sets, block_size_bytes,
          set_index_mask, cache_memory, total_hits, total_misses,
          total_evictions, global_lru_counter, trace_file_pointer, printed,
          hist, ref, nLS, nM, nOther, malformed, unread>>

config == <<set_index_bits, associativity, block_offset_bits, trace_filename,
            file_readable, shift_ub>>
geometry == <<number_of_sets, block_size_bytes, set_index_mask>>
counters == <<total_hits, total_misses, total_evictions, global_lru_counter>>
records == <<nLS, nM, nOther>>

\* ------------------------------------------------------------ arithmetic

\* x >> n on a non-negative x, for 0 <= n.
RECURSIVE Shr(_, _)
Shr(x, n) == IF n = 0 \/ x = 0 THEN x ELSE Shr(x \div 2, n - 1)

\* x & m, for a non-negative x and a mask m given as a signed integer that
\* stands for its two's-complement pattern (what the conversion of an int to
\* memory_address_t gives: -1 is all ones).
RECURSIVE BitAnd(_, _)
BitAnd(x, m) ==
    IF x = 0 \/ m = 0 THEN 0
    ELSE (x % 2) * (m % 2) + 2 * BitAnd(x \div 2, m \div 2)

\* address >> n on memory_address_t.  A shift by ADDRESS_LENGTH or more is
\* undefined: the build either uses the count modulo the width or yields 0.
ShiftRight64(x, n) ==
    IF n < ADDRESS_LENGTH THEN Shr(x, n)
    ELSE IF shift_ub = "wrap" THEN Shr(x, n % ADDRESS_LENGTH)
    ELSE 0

\* 1 << n on int, as an int.  Defined for 0 <= n <= 30; beyond that the
\* build either uses the count modulo the width (1 << 31 is INT_MIN) or
\* yields 0.
ShiftLeft32(n) ==
    IF n < INT_BITS - 1 THEN 2 ^ n
    ELSE IF shift_ub = "wrap"
         THEN (IF n % INT_BITS = INT_BITS - 1 THEN INT_MIN ELSE 2 ^ (n % INT_BITS))
    ELSE 0

\* csim.c:22  #define pow(two, shift) (1 << (shift))
pow(two, shift) == ShiftLeft32(shift)

\* x - 1 on int; INT_MIN - 1 overflows and wraps to INT_MAX.
IntPred(x) == IF x = INT_MIN THEN INT_MAX ELSE x - 1

\* ------------------------------------------------------------ the cache

\* A line whose lru_counter init_cache left unset.
EmptyLineUnstamped == [is_valid |-> 0, tag_value |-> 0, lru_counter |-> 1]

\* csim.c:68-70  a line as init_cache leaves it.
EmptyLine == [is_valid |-> 0, tag_value |-> 0, lru_counter |-> 0]

\* csim.c:60-72  the table init_cache builds.
NewCache(sets, lines) ==
    [set_index \in 0 .. sets - 1 |-> [line_index \in 0 .. lines - 1 |-> EmptyLine]]

\* csim.c:75
NewMask(s) == IntPred(pow(2, s))

\* csim.c:92
SetIndex(address) == BitAnd(ShiftRight64(address, block_offset_bits), set_index_mask)

\* csim.c:93
TagValue(address) == ShiftRight64(address, set_index_bits + block_offset_bits)

\* The test without the valid flag.
IsMatchTagOnly(line, tag_value) == line.tag_value = tag_value

\* csim.c:100-101  the test of the first loop.
IsMatch(line, tag_value) == line.is_valid # 0 /\ line.tag_value = tag_value

\* The test with >= : among equal counters the last line wins.
IsOlderOrEqual(min_lru_value, lru_counter) == min_lru_value >= lru_counter

\* csim.c:118  the test of the second loop.
IsOlder(min_lru_value, lru_counter) == min_lru_value > lru_counter

\* csim.c:98-110  the first loop of access_data: the index of the first line
\* that is valid and holds the tag, or associativity (the value line_index
\* leaves the loop with) when there is none.
RECURSIVE ScanForTag(_, _, _)
ScanForTag(group, tag_value, line_index) ==
    IF ~(line_index < associativity) THEN associativity
    ELSE IF IsMatch(group[line_index], tag_value) THEN line_index
    ELSE ScanForTag(group, tag_value, line_index + 1)

\* A lookup that tests line 0 only.
HitLineFirstOnly(group, tag_value) ==
    IF IsMatch(group[0], tag_value) THEN 0 ELSE associativity

HitLine(group, tag_value) == ScanForTag(group, tag_value, 0)

\* csim.c:116-123  the second loop of access_data: lru_line_index after the
\* scan that starts from min_lru_value = ULONG_MAX, lru_line_index = 0.
RECURSIVE ScanForLru(_, _, _, _)
ScanForLru(group, line_index, min_lru_value, lru_line_index) ==
    IF ~(line_index < associativity) THEN lru_line_index
    ELSE IF IsOlder(min_lru_value, group[line_index].lru_counter)
         THEN ScanForLru(group, line_index + 1, group[line_index].lru_counter, line_index)
    ELSE ScanForLru(group, line_index + 1, min_lru_value, lru_line_index)

\* A victim search that never leaves line 0.
FirstLine(group) == 0

\* A replacement policy gone wrong: the most recently stamped line.
MruLine(group) ==
    CHOOSE l \in 0 .. associativity - 1 :
        \A k \in 0 .. associativity - 1 : group[l].lru_counter >= group[k].lru_counter

LruLine(group) == ScanForLru(group, 0, ULONG_MAX, 0)

\* An overwrite that never counts, and one that always counts.
NeverCountsEviction(line) == 0
AlwaysCountsEviction(line) == 1

\* csim.c:125-127  whether overwriting this line counts as an eviction.
CountsEviction(line) == IF line.is_valid # 0 THEN 1 ELSE 0

\* A fill that leaves the line invalid.
FilledLineNotValid(tag_value, clock) ==
    [is_valid |-> 0, tag_value |-> tag_value, lru_counter |-> clock]

\* A fill that stamps the line with a pre-increment, ++global_lru_counter.
FilledLinePreIncrement(tag_value, clock) ==
    [is_valid |-> 1, tag_value |-> tag_value, lru_counter |-> clock + 1]

\* csim.c:130-132  the line a miss stores.
FilledLine(tag_value, clock) ==
    [is_valid |-> 1, tag_value |-> tag_value, lru_counter |-> clock]

\* A hit that leaves the line as it found it.
TouchedLineNotStamped(line, clock) == line

\* csim.c:104  the line a hit leaves.
TouchedLine(line, clock) == [line EXCEPT !.lru_counter = clock]

\* A clock that stands still.
NextClockStuck(clock) == clock

\* csim.c:104, 132  global_lru_counter after the post-increment
\* global_lru_counter++ of a hit or of a miss.
NextClock(clock) == clock + 1

\* The part of the program state access_data reads and writes.
Memory ==
    [cache_memory |-> cache_memory, total_hits |-> total_hits,
     total_misses |-> total_misses, total_evictions |-> total_evictions,
     global_lru_counter |-> global_lru_counter]

\* csim.c:87-133  access_data(address), on a table that holds the set and at
\* least one line per set.
AccessData(mem, address) ==
    LET set_index == SetIndex(address)
        tag_value == TagValue(address)
        current_cache_group == mem.cache_memory[set_index]
        hit_line == HitLine(current_cache_group, tag_value)
        lru_line_index == LruLine(current_cache_group)
    IN  IF hit_line < associativity
        THEN [mem EXCEPT
                !.cache_memory[set_index][hit_line] =
                    TouchedLine(@, mem.global_lru_counter),
                !.global_lru_counter = NextClock(@),
                !.total_hits = @ + 1]
        ELSE [mem EXCEPT
                !.total_misses = @ + 1,
                !.total_evictions =
                    @ + CountsEviction(current_cache_group[lru_line_index]),
                !.cache_memory[set_index][lru_line_index] =
                    FilledLine(tag_value, mem.global_lru_counter),
                !.global_lru_counter = NextClock(@)]

\* Whether access_data(address) stays inside the table: the set exists and
\* has a line 0.  Outside it the reads and writes of access_data are
\* undefined behaviour.
InTable(address) ==
    /\ associativity >= 1
    /\ SetIndex(address) \in DOMAIN cache_memory

\* What one access did: the target set before and after, the change of each
\* counter, the clock it found and the clock it left, and which of the
\* accesses of its record it is (nth of count).
Entry(before, after, address, nth, count) ==
    [set_index |-> SetIndex(address),
     tag_value |-> TagValue(address),
     before |-> before.cache_memory[SetIndex(address)],
     after |-> after.cache_memory[SetIndex(address)],
     hits |-> after.total_hits - before.total_hits,
     misses |-> after.total_misses - before.total_misses,
     evictions |-> after.total_evictions - before.total_evictions,
     clock |-> before.global_lru_counter,
     clock_after |-> after.global_lru_counter,
     nth |-> nth,
     count |-> count]

\* ------------------------------------------------------------ the inputs

\* The command lines: the globals as the getopt loop of main leaves them
\* (csim.c:159-181), with whether the trace file can be opened and what the
\* build does on an oversized shift.  Besides the geometries the argument test of
\* main accepts and the specification allows, one command line for each way
\* an argument can be missing or out of range, and one with as many set
\* index bits as an int has bits.
Config(s, E, b, t, readable, ub) ==
    [set_index_bits |-> s, associativity |-> E, block_offset_bits |-> b,
     trace_filename |-> t, file_readable |-> readable, shift_ub |-> ub]

Configs ==
    {Config(s, E, b, "trace", TRUE, "wrap") :
        s \in SetBitsChoices, E \in 1 .. MaxAssoc, b \in BlockBitsChoices}
    \cup {Config(0, 1, 1, "trace", TRUE, "wrap"),
          Config(1, 0, 1, "trace", TRUE, "wrap"),
          Config(1, 1, 0, "trace", TRUE, "wrap"),
          Config(1, 1, 1, NULL, FALSE, "wrap"),
          Config(1, 1, 1, "trace", FALSE, "wrap"),
          Config(1, -1, 1, "trace", TRUE, "wrap"),
          Config(1, 1, ADDRESS_LENGTH - 1, "trace", TRUE, "wrap"),
          Config(1, 1, ADDRESS_LENGTH - 1, "trace", TRUE, "zero"),
          Config(INT_BITS, 1, 1, "trace", TRUE, "wrap"),
          Config(INT_BITS, 1, 1, "trace", TRUE, "zero")}

\* The records fscanf(" %c %llx,%d") can parse: a command character and an
\* address (the size is parsed and never used).
Commands == {"L", "S", "M", "I"}
Records == [command : Commands, address : Addrs]

\* What follows a malformed line in the trace file: nothing, or one more
\* line, a Load record (the program never reads it).
Rests == {<<>>, <<[command |-> "L", address |-> 0]>>}

\* -------------------------------------------------- the reference model

\* The reference LRU model the cache is compared with: per set, the list of
\* the at most E most recently accessed distinct tags, least recently
\* accessed first.  An access is a hit iff its tag is in the list of its set;
\* a miss on a full list evicts the head of the list.
RefRange(list) == {list[i] : i \in 1 .. Len(list)}

RefKindOf(list, tag) ==
    IF tag \in RefRange(list) THEN "hit"
    ELSE IF Len(list) >= associativity THEN "miss_eviction"
    ELSE "miss"

RefAccess(list, tag) ==
    IF tag \in RefRange(list)
    THEN SelectSeq(list, LAMBDA x : x # tag) \o <<tag>>
    ELSE IF Len(list) >= associativity THEN Tail(list) \o <<tag>>
    ELSE list \o <<tag>>

RefNew(sets) == [lists |-> [set_index \in 0 .. sets - 1 |-> <<>>], kinds |-> <<>>]

\* The reference model after the accesses of the entries, in order.
RECURSIVE RefReplay(_, _)
RefReplay(r, entries) ==
    IF entries = <<>> THEN r
    ELSE LET e == Head(entries)
         IN  RefReplay(
                [lists |-> [r.lists EXCEPT ![e.set_index] = RefAccess(@, e.tag_value)],
                 kinds |-> Append(r.kinds, RefKindOf(r.lists[e.set_index], e.tag_value))],
                Tail(entries))

\* ----------------------------------------------------------- the program

\* csim.c:38-56  the globals at their initialisers, after the getopt loop.
Init ==
    /\ \E c \in Configs :
        /\ set_index_bits = c.set_index_bits
        /\ associativity = c.associativity
        /\ block_offset_bits = c.block_offset_bits
        /\ trace_filename = c.trace_filename
        /\ file_readable = c.file_readable
        /\ shift_ub = c.shift_ub
    /\ pc = "main"
    /\ number_of_sets = 0
    /\ block_size_bytes = 0
    /\ set_index_mask = 0
    /\ cache_memory = <<>>
    /\ total_misses = 0
    /\ total_hits = 0
    /\ total_evictions = 0
    /\ global_lru_counter = 1
    /\ trace_file_pointer = NULL
    /\ printed = <<>>
    /\ hist = <<>>
    /\ ref = RefNew(0)
    /\ nLS = 0
    /\ nM = 0
    /\ nOther = 0
    /\ malformed = FALSE
    /\ unread = <<>>

\* csim.c:184  the test main makes of the arguments.
MissingArgument ==
    \/ set_index_bits = 0
    \/ associativity = 0
    \/ block_offset_bits = 0
    \/ trace_filename = NULL

\* csim.c:184-187  a required argument is missing: exit(1).
RejectArgs ==
    /\ pc = "main"
    /\ MissingArgument
    /\ pc' = "exit_1"
    /\ UNCHANGED <<config, geometry, cache_memory, counters, trace_file_pointer,
                   printed, hist, ref, records, malformed, unread>>

\* csim.c:184-191  the arguments pass: number_of_sets and block_size_bytes.
AcceptArgs ==
    /\ pc = "main"
    /\ ~MissingArgument
    /\ number_of_sets' = pow(2, set_index_bits)
    /\ block_size_bytes' = pow(2, block_offset_bits)
    /\ pc' = "init_cache"
    /\ UNCHANGED <<config, set_index_mask, cache_memory, counters,
                   trace_file_pointer, printed, hist, ref, records, malformed, unread>>

\* csim.c:58-76, 193  init_cache().
InitCache ==
    /\ pc = "init_cache"
    /\ cache_memory' = NewCache(number_of_sets, associativity)
    /\ set_index_mask' = NewMask(set_index_bits)
    /\ ref' = RefNew(number_of_sets)
    /\ pc' = "replay_trace"
    /\ UNCHANGED <<config, number_of_sets, block_size_bytes, counters,
                   trace_file_pointer, printed, hist, records, malformed, unread>>

\* A replay_trace that prints the summary as soon as the file is open.
OpenTraceAndReport ==
    /\ pc = "replay_trace"
    /\ trace_file_pointer' = IF file_readable THEN "FILE" ELSE NULL
    /\ printed' = Append(printed, <<total_hits, total_misses, total_evictions>>)
    /\ pc' = "fscanf"
    /\ UNCHANGED <<config, geometry, cache_memory, counters, hist, ref,
                   records, malformed, unread>>

\* csim.c:138, 195  replay_trace opens the file; the result is not tested.
OpenTrace ==
    /\ pc = "replay_trace"
    /\ trace_file_pointer' = IF file_readable THEN "FILE" ELSE NULL
    /\ pc' = "fscanf"
    /\ UNCHANGED <<config, geometry, cache_memory, counters, printed, hist,
                   ref, records, malformed, unread>>

\* A switch whose M case issues one access.
AccessesOnce(record) ==
    IF record.command \in {"L", "S", "M"} THEN <<record.address>> ELSE <<>>

\* csim.c:144-149  the accesses the switch issues for a command.
Accesses(record) ==
    CASE record.command = "L" -> <<record.address>>
      [] record.command = "S" -> <<record.address>>
      [] record.command = "M" -> <<record.address, record.address>>
      [] OTHER -> <<>>

\* The memory after the accesses, issued in order.
RECURSIVE Replay(_, _)
Replay(mem, addresses) ==
    IF addresses = <<>> THEN mem
    ELSE Replay(AccessData(mem, Head(addresses)), Tail(addresses))

\* The history entries of the accesses, issued in order from mem.
RECURSIVE Entries(_, _, _)
Entries(mem, addresses, nth) ==
    IF nth > Len(addresses) THEN <<>>
    ELSE LET next == AccessData(mem, addresses[nth])
         IN  <<Entry(mem, next, addresses[nth], nth, Len(addresses))>>
             \o Entries(next, addresses, nth + 1)

\* The record counts after one more record.
CountRecord(record) ==
    /\ nLS' = nLS + (IF record.command \in {"L", "S"} THEN 1 ELSE 0)
    /\ nM' = nM + (IF record.command = "M" THEN 1 ELSE 0)
    /\ nOther' = nOther + (IF record.command \notin {"L", "S", "M"} THEN 1 ELSE 0)

RecordsRead == nLS + nM + nOther

\* csim.c:143-150  one turn of the loop of replay_trace: fscanf parses a
\* record (returns 3) and the switch issues its accesses.
ReplayRecord ==
    /\ pc = "fscanf"
    /\ trace_file_pointer # NULL
    /\ RecordsRead < MaxRecords
    /\ \E record \in Records :
        /\ \A i \in 1 .. Len(Accesses(record)) : InTable(Accesses(record)[i])
        /\ LET mem == Replay(Memory, Accesses(record))
               entries == Entries(Memory, Accesses(record), 1)
           IN  /\ cache_memory' = mem.cache_memory
               /\ total_hits' = mem.total_hits
               /\ total_misses' = mem.total_misses
               /\ total_evictions' = mem.total_evictions
               /\ global_lru_counter' = mem.global_lru_counter
               /\ hist' = hist \o entries
               /\ ref' = RefReplay(ref, entries)
        /\ CountRecord(record)
    /\ UNCHANGED <<pc, config, geometry, trace_file_pointer, printed,
                   malformed, unread>>

\* csim.c:95-132  an access outside the table, which is undefined
\* behaviour.  Either the sets have no line (associativity < 1): the two
\* loops do not run, total_misses is incremented, and line 0 of the set is
\* read and written out of bounds.  Or the table has no set of that index
\* (number_of_sets < 1): the pointer to the set is read out of bounds and
\* the loops run on whatever it points to.  The run dies there, or goes on
\* with what it read.
ReplayRecordOutOfBounds ==
    /\ pc = "fscanf"
    /\ trace_file_pointer # NULL
    /\ RecordsRead < MaxRecords
    /\ \E record \in Records :
        /\ Accesses(record) # <<>>
        /\ ~InTable(Accesses(record)[1])
        /\ CountRecord(record)
        /\ LET count == Len(Accesses(record))
               no_set == SetIndex(Accesses(record)[1]) \notin DOMAIN cache_memory
           IN  \/ /\ pc' = "crashed"
                  /\ total_misses' = total_misses + (IF no_set THEN 0 ELSE 1)
                  /\ UNCHANGED <<total_hits, total_evictions, global_lru_counter>>
               \/ /\ pc' = pc
                  /\ \E garbage_hits \in 0 .. (IF no_set THEN count ELSE 0) :
                        /\ total_hits' = total_hits + garbage_hits
                        /\ total_misses' = total_misses + (count - garbage_hits)
                        /\ \E garbage_evictions \in 0 .. count - garbage_hits :
                              total_evictions' = total_evictions + garbage_evictions
                  /\ global_lru_counter' = global_lru_counter + count
    /\ UNCHANGED <<config, geometry, cache_memory, trace_file_pointer, printed,
                   hist, ref, malformed, unread>>

\* csim.c:152, 197-201  after the loop: fclose, free_cache, printSummary,
\* return 0.
Report ==
    /\ printed' = Append(printed, <<total_hits, total_misses, total_evictions>>)
    /\ cache_memory' = <<>>
    /\ pc' = "done"

\* csim.c:143  fscanf does not return 3 at the end of the file: the loop
\* ends and main reports.
ReplayEndOfFile ==
    /\ pc = "fscanf"
    /\ trace_file_pointer # NULL
    /\ Report
    /\ UNCHANGED <<config, geometry, counters, trace_file_pointer, hist, ref,
                   records, malformed, unread>>

\* csim.c:143  fscanf does not return 3 on a line it cannot parse either:
\* the loop ends there, whatever follows the line in the file, and main
\* reports.
ReplayMalformed ==
    /\ pc = "fscanf"
    /\ trace_file_pointer # NULL
    /\ malformed' = TRUE
    /\ \E rest \in Rests : unread' = rest
    /\ Report
    /\ UNCHANGED <<config, geometry, counters, trace_file_pointer, hist, ref,
                   records>>

\* csim.c:143, 152  fscanf, then fclose, on the null pointer a failed fopen
\* returned: undefined.  The run dies in one of them, or both report a
\* failure nobody tests and main reports.
ReplayNullFile ==
    /\ pc = "fscanf"
    /\ trace_file_pointer = NULL
    /\ \/ /\ pc' = "crashed"
          /\ UNCHANGED <<cache_memory, printed>>
       \/ Report
    /\ UNCHANGED <<config, geometry, counters, trace_file_pointer, hist, ref,
                   records, malformed, unread>>

Next ==
    \/ RejectArgs
    \/ AcceptArgs
    \/ InitCache
    \/ OpenTrace
    \/ ReplayRecord
    \/ ReplayRecordOutOfBounds
    \/ ReplayEndOfFile
    \/ ReplayMalformed
    \/ ReplayNullFile

Spec == Init /\ [][Next]_vars

TypeOK ==
    /\ pc \in {"main", "exit_1", "init_cache", "replay_trace", "fscanf",
               "done", "crashed"}
    /\ total_hits \in Nat /\ total_misses \in Nat /\ total_evictions \in Nat
    /\ Len(hist) <= 2 * MaxRecords

\* ------------------------------------------------------------ properties

\* How an access was classified, from the counters it changed.
Kind(entry) ==
    IF entry.hits = 1 THEN "hit"
    ELSE IF entry.evictions = 1 THEN "miss_eviction"
    ELSE "miss"

\* The lines of a set that are valid.
ValidLines(group) == {line_index \in DOMAIN group : group[line_index].is_valid # 0}

\* The tags a set holds.
ValidTags(group) == {group[line_index].tag_value : line_index \in ValidLines(group)}

\* The tags of the given lines of a set, least recently stamped first.
RECURSIVE ByRecency(_, _)
ByRecency(group, lines) ==
    IF lines = {} THEN <<>>
    ELSE LET first == CHOOSE l \in lines :
                        \A k \in lines : group[l].lru_counter <= group[k].lru_counter
         IN  <<group[first].tag_value>> \o ByRecency(group, lines \ {first})

RefCount(kinds) == Cardinality({n \in 1 .. Len(ref.kinds) : ref.kinds[n] \in kinds})

\* C1: on a table with at least one set, of E >= 1 lines, every access access_data made is
\* classified (hit, miss, miss with eviction) as the reference LRU model
\* classifies it, the three counters are the counts of the reference model,
\* and each set holds the tags of the reference list of its set, in the same
\* order of recency.
C1_MatchesReferenceLru ==
    (associativity >= 1 /\ number_of_sets >= 1) =>
        /\ Len(ref.kinds) = Len(hist)
        /\ \A n \in 1 .. Len(hist) : Kind(hist[n]) = ref.kinds[n]
        /\ total_hits = RefCount({"hit"})
        /\ total_misses = RefCount({"miss", "miss_eviction"})
        /\ total_evictions = RefCount({"miss_eviction"})
        /\ \A set_index \in DOMAIN cache_memory :
              ByRecency(cache_memory[set_index], ValidLines(cache_memory[set_index]))
                  = ref.lists[set_index]

\* C1 witness: a 2-way set was hit and later evicted from, in a finished run.
C1_Witness ==
    /\ pc = "done"
    /\ associativity = 2
    /\ \E m, n \in 1 .. Len(hist) :
          /\ m < n
          /\ hist[m].set_index = hist[n].set_index
          /\ Kind(hist[m]) = "hit"
          /\ Kind(hist[n]) = "miss_eviction"
          /\ ref.kinds[n] = "miss_eviction"

\* C2: conservation.  While the trace is replayed and after it, hits + misses
\* is the number of L and S records read plus twice the number of M records
\* read; records of any other kind add nothing.
C2_Conservation ==
    pc # "crashed" => total_hits + total_misses = nLS + 2 * nM

\* C2 witness: a finished run that read a record of each kind.
C2_Witness ==
    /\ pc = "done"
    /\ ~malformed
    /\ nLS >= 1 /\ nM >= 1 /\ nOther >= 1
    /\ total_hits + total_misses = nLS + 2 * nM

\* C3: the second of the two accesses of an M record is a hit, so that the
\* record gives hit+hit or miss+hit, never two misses.
C3_ModifySecondHits ==
    \A n \in 1 .. Len(hist) :
        (hist[n].count = 2 /\ hist[n].nth = 2) =>
            /\ Kind(hist[n]) = "hit"
            /\ hist[n - 1].count = 2 /\ hist[n - 1].nth = 1
            /\ hist[n - 1].set_index = hist[n].set_index
            /\ hist[n - 1].tag_value = hist[n].tag_value
            /\ hist[n - 1].hits + hist[n - 1].misses = 1

\* C3 witness: an M record whose first access missed and evicted a line, and
\* an earlier M record whose accesses both hit.
C3_Witness ==
    \E m, n \in 1 .. Len(hist) :
        /\ m < n
        /\ hist[m].count = 2 /\ hist[m].nth = 2 /\ Kind(hist[m - 1]) = "hit"
        /\ Kind(hist[m]) = "hit"
        /\ hist[n].count = 2 /\ hist[n].nth = 2
        /\ Kind(hist[n - 1]) = "miss_eviction"
        /\ Kind(hist[n]) = "hit"

\* C4: cold start.  The first access of a run to a (set index, tag) pair is a
\* miss, also for tag 0, the tag init_cache leaves in the invalid lines.
FirstOfItsPair(n) ==
    \A m \in 1 .. n - 1 :
        ~(hist[m].set_index = hist[n].set_index /\ hist[m].tag_value = hist[n].tag_value)

C4_ColdStartMisses ==
    \A n \in 1 .. Len(hist) :
        FirstOfItsPair(n) => (hist[n].misses = 1 /\ hist[n].hits = 0)

\* C4 witness: the first access of the run is to tag 0 and missed, and a
\* later first access to tag 0 of another set missed too.
C4_Witness ==
    /\ Len(hist) >= 2
    /\ hist[1].tag_value = 0 /\ Kind(hist[1]) = "miss"
    /\ \E n \in 2 .. Len(hist) :
          /\ FirstOfItsPair(n)
          /\ hist[n].tag_value = 0
          /\ hist[n].set_index # hist[1].set_index
          /\ Kind(hist[n]) = "miss"

\* The accesses of the history that went to a set, in order.
SetHist(set_index) == SelectSeq(hist, LAMBDA e : e.set_index = set_index)

\* The first m accesses of sub are to m distinct tags.
DistinctTags(sub, m) ==
    \A i, j \in 1 .. m : i # j => sub[i].tag_value # sub[j].tag_value

\* C5: capacity.  When the first E+1 accesses to a set are to E+1 distinct
\* tags, the first E are misses without eviction and the (E+1)-th is a miss
\* with an eviction that displaces the first tag accessed and leaves the
\* other E-1 resident beside the new one.
C5_Capacity ==
    \A set_index \in 0 .. number_of_sets - 1 :
        LET sub == SetHist(set_index)
            E == associativity
        IN  \A m \in 1 .. Len(sub) :
                (m <= E + 1 /\ DistinctTags(sub, m)) =>
                    IF m <= E
                    THEN Kind(sub[m]) = "miss"
                    ELSE /\ Kind(sub[m]) = "miss_eviction"
                         /\ sub[1].tag_value \in ValidTags(sub[m].before)
                         /\ ValidTags(sub[m].after)
                                = {sub[j].tag_value : j \in 2 .. E + 1}

\* C5 witness: a 2-way set whose first three accesses were to three tags.
C5_Witness ==
    /\ associativity = 2
    /\ \E set_index \in 0 .. number_of_sets - 1 :
          /\ Len(SetHist(set_index)) >= 3
          /\ DistinctTags(SetHist(set_index), 3)
          /\ Kind(SetHist(set_index)[3]) = "miss_eviction"

\* A set the run accessed still has a line that was never filled.
SomeAccessedSetNotFull ==
    \E n \in 1 .. Len(hist) :
        /\ hist[n].set_index \in DOMAIN cache_memory
        /\ \E line_index \in DOMAIN cache_memory[hist[n].set_index] :
              cache_memory[hist[n].set_index][line_index].is_valid = 0

\* C6: evictions never exceed misses, and are strictly fewer as long as a
\* line of an accessed set has not been filled.
C6_EvictionsBelowMisses ==
    /\ total_evictions <= total_misses
    /\ SomeAccessedSetNotFull => total_evictions < total_misses

\* C6 witness: lines were evicted while an accessed set is not yet full.
C6_Witness ==
    /\ total_evictions >= 1
    /\ SomeAccessedSetNotFull
    /\ total_evictions < total_misses

\* C7: an access counts an eviction only if every line of its set was valid
\* before it; a miss on a set with an invalid line stores the tag in a line
\* that was invalid, changes no other line and counts no eviction.
C7_FillBeforeEvict ==
    \A n \in 1 .. Len(hist) :
        LET e == hist[n]
            invalid == {l \in DOMAIN e.before : e.before[l].is_valid = 0}
        IN  /\ e.evictions = 1 => invalid = {}
            /\ (e.misses = 1 /\ invalid # {}) =>
                  /\ e.evictions = 0
                  /\ \E l \in invalid :
                        /\ e.after[l].is_valid # 0
                        /\ e.after[l].tag_value = e.tag_value
                        /\ \A k \in DOMAIN e.before \ {l} : e.after[k] = e.before[k]

\* C7 witness: a miss filled the free line of a half-full set, and a later
\* miss on the full set evicted.
C7_Witness ==
    \E m, n \in 1 .. Len(hist) :
        /\ m < n
        /\ hist[m].set_index = hist[n].set_index
        /\ Kind(hist[m]) = "miss"
        /\ ValidLines(hist[m].before) # {}
        /\ ValidLines(hist[m].before) # DOMAIN hist[m].before
        /\ Kind(hist[n]) = "miss_eviction"

\* No two valid lines of the set hold the same tag.
NoSharedTag(group) ==
    \A k, l \in ValidLines(group) : k # l => group[k].tag_value # group[l].tag_value

\* C8: in every set, no two valid lines hold the same tag (in the table as it
\* is, and in every set as an access left it).
C8_TagsUniquePerSet ==
    /\ \A set_index \in DOMAIN cache_memory : NoSharedTag(cache_memory[set_index])
    /\ \A n \in 1 .. Len(hist) : NoSharedTag(hist[n].after)

\* C8 witness: a set with two valid lines, after hits and evictions.
C8_Witness ==
    /\ total_hits >= 1
    /\ total_evictions >= 1
    /\ \E set_index \in DOMAIN cache_memory :
          Cardinality(ValidLines(cache_memory[set_index])) = 2

\* The accesses the records of a piece of the trace file call for.
RECURSIVE AccessesIn(_)
AccessesIn(rest) ==
    IF rest = <<>> THEN 0 ELSE Len(Accesses(Head(rest))) + AccessesIn(Tail(rest))

\* The geometry the specification rules out.
InvalidGeometry ==
    \/ associativity <= 0
    \/ set_index_bits + block_offset_bits > ADDRESS_LENGTH - 1

\* C9: a malformed line is skipped and the run goes on: the L, S and M
\* records that follow it in the file are fed to the cache and counted in the
\* result main prints (on a geometry the specification allows).
C9_MalformedLineSkipped ==
    (pc = "done" /\ malformed /\ ~InvalidGeometry) =>
        printed[Len(printed)][1] + printed[Len(printed)][2]
            = nLS + 2 * nM + AccessesIn(unread)

InitCacheCalled == pc \in {"replay_trace", "fscanf", "done", "crashed"}
AccessDataCalled == total_hits + total_misses > 0
SummaryPrinted == printed # <<>>

\* C10: with a non-positive associativity, or set_index_bits +
\* block_offset_bits above 63, the program stops with an error before it
\* calls init_cache, access_data or printSummary.
C10_InvalidGeometryFatal ==
    InvalidGeometry => ~InitCacheCalled /\ ~AccessDataCalled /\ ~SummaryPrinted

\* C11: a command line with block_offset_bits = 0, positive set_index_bits
\* and associativity and a trace file is accepted: main does not leave
\* through exit(1).
C11_ZeroBlockBitsAccepted ==
    (/\ set_index_bits >= 1
     /\ associativity >= 1
     /\ block_offset_bits = 0
     /\ trace_filename # NULL) => pc # "exit_1"

\* C12: printSummary is called at most once, and only in the step that
\* leaves the loop of replay_trace: a summary has been printed only in a
\* finished run, every finished run has printed exactly one, and the tuple
\* printed is the tuple of the counters as they are now, so no access_data
\* call came after the report (every call increments total_hits or
\* total_misses).
C12_ReportedOnceAtTheEnd ==
    /\ Len(printed) <= 1
    /\ printed # <<>> =>
          /\ pc = "done"
          /\ printed[1] = <<total_hits, total_misses, total_evictions>>
    /\ pc = "done" => Len(printed) = 1

\* C12 witness: a finished run of a readable trace that made a hit and a
\* miss, with its one summary.
C12_Witness ==
    /\ pc = "done"
    /\ trace_file_pointer # NULL
    /\ Len(printed) = 1
    /\ Len(hist) >= 2
    /\ printed[1][1] >= 1
    /\ printed[1][2] >= 1

\* C13: when the trace file named on an accepted command line cannot be
\* opened, the run never reads a record, never calls access_data, never
\* prints a summary and never finishes as a normal run.
C13_UnopenedTraceFatal ==
    (~MissingArgument /\ trace_filename # NULL /\ ~file_readable) =>
        /\ RecordsRead = 0
        /\ ~AccessDataCalled
        /\ ~SummaryPrinted
        /\ pc # "done"

\* C14: every miss overwrites the line of its set whose lru_counter is the
\* least, the lowest-indexed one among equals, and nothing else in the set;
\* the line it leaves is valid, holds the tag of the address, and holds the
\* value global_lru_counter had before the access incremented it.
C14_VictimIsOldest ==
    \A n \in 1 .. Len(hist) :
        hist[n].misses = 1 =>
            \E victim \in DOMAIN hist[n].before :
                /\ \A k \in DOMAIN hist[n].before :
                      /\ hist[n].before[k].lru_counter
                            >= hist[n].before[victim].lru_counter
                      /\ k < victim =>
                            hist[n].before[k].lru_counter
                                > hist[n].before[victim].lru_counter
                      /\ k # victim => hist[n].after[k] = hist[n].before[k]
                /\ hist[n].after[victim].is_valid = 1
                /\ hist[n].after[victim].tag_value = hist[n].tag_value
                /\ hist[n].after[victim].lru_counter = hist[n].clock
                /\ hist[n].clock_after = hist[n].clock + 1

\* C14 witness: in a 2-way set, a miss that found both lines invalid filled
\* line 0, and a later miss evicted line 1, the older of two valid lines.
C14_Witness ==
    /\ associativity = 2
    /\ \E n \in 1 .. Len(hist) :
          /\ hist[n].misses = 1
          /\ \A k \in DOMAIN hist[n].before : hist[n].before[k].is_valid = 0
          /\ hist[n].after[0].is_valid = 1
    /\ \E n \in 1 .. Len(hist) :
          /\ hist[n].evictions = 1
          /\ hist[n].before[1].lru_counter < hist[n].before[0].lru_counter
          /\ hist[n].after[1].lru_counter = hist[n].clock

\* What a hit may change in its own set: the lru_counter of the one valid
\* line that holds the tag, which becomes the clock the access found.
HitFrame(entry) ==
    /\ entry.misses = 0
    /\ entry.evictions = 0
    /\ entry.clock_after = entry.clock + 1
    /\ \E line_index \in DOMAIN entry.before :
          /\ entry.before[line_index].is_valid # 0
          /\ entry.before[line_index].tag_value = entry.tag_value
          /\ entry.after =
                [entry.before EXCEPT ![line_index].lru_counter = entry.clock]

\* The accesses of this step, when it is a turn of the loop whose accesses
\* include a hit.
StepWithHit ==
    \E n \in Len(hist) + 1 .. Len(hist') : hist'[n].hits = 1

\* The sets other than the one the accesses of this step went to.
OtherSetsUnchanged ==
    \A set_index \in DOMAIN cache_memory :
        set_index # hist'[Len(hist')].set_index =>
            cache_memory'[set_index] = cache_memory[set_index]

\* C15: a hit increments total_hits and global_lru_counter, stamps the
\* matching line with the clock it found, and changes nothing else: not
\* total_misses or total_evictions, not the valid flag, tag or lru_counter
\* of any other line of its set, and no line of any other set.
C15_HitChangesOnlyRecency ==
    /\ [](\A n \in 1 .. Len(hist) : hist[n].hits = 1 => HitFrame(hist[n]))
    /\ [][StepWithHit => OtherSetsUnchanged]_vars

\* C15 witness: a hit in a 2-way set with both lines valid, in a table that
\* holds a valid line in another set as well.
C15_Witness ==
    /\ pc = "fscanf"
    /\ associativity = 2
    /\ \E n \in 1 .. Len(hist) :
          /\ hist[n].hits = 1
          /\ \A k \in DOMAIN hist[n].before : hist[n].before[k].is_valid = 1
          /\ \E m \in 1 .. n - 1 : hist[m].set_index # hist[n].set_index

\* C16: global_lru_counter starts at 1 and every access_data call, hit or
\* miss, adds exactly 1 to it: the first call finds 1, each later call finds
\* what the call before it left, and between calls global_lru_counter is
\* 1 + total_hits + total_misses.  (A run that died inside access_data
\* stopped between the increment of total_misses and that of the clock.)
C16_ClockCountsAccesses ==
    /\ pc # "crashed" => global_lru_counter = 1 + total_hits + total_misses
    /\ \A n \in 1 .. Len(hist) :
          /\ hist[n].clock = IF n = 1 THEN 1 ELSE hist[n - 1].clock_after
          /\ hist[n].clock_after = hist[n].clock + 1

\* C16 witness: the clock after a Modify record and more, with hits and
\* misses among the accesses.
C16_Witness ==
    /\ pc = "fscanf"
    /\ nM >= 1
    /\ total_hits >= 2
    /\ total_misses >= 2
    /\ global_lru_counter >= 5
    /\ Len(hist) = global_lru_counter - 1

\* The low n bits of a non-negative x: x & (2^n - 1), for any n >= 0.
RECURSIVE LowBits(_, _)
LowBits(x, n) ==
    IF n = 0 \/ x = 0 THEN 0 ELSE (x % 2) + 2 * LowBits(x \div 2, n - 1)

\* Whether x = 2^n, for any n >= 0.
RECURSIVE IsTwoToThe(_, _)
IsTwoToThe(x, n) ==
    IF n = 0 THEN x = 1
    ELSE x > 0 /\ x % 2 = 0 /\ IsTwoToThe(x \div 2, n - 1)

\* C17: for every accepted geometry with set_index_bits >= 1 and
\* set_index_bits + block_offset_bits <= 63, once init_cache has run,
\* number_of_sets is 2^set_index_bits and the set index access_data
\* computes for an address is (address >> block_offset_bits) &
\* (2^set_index_bits - 1), at least 0, below number_of_sets, and the index
\* of a set of the table.
C17_SetIndexInBounds ==
    (/\ pc \in {"replay_trace", "fscanf"}
     /\ set_index_bits >= 1
     /\ associativity >= 1
     /\ set_index_bits + block_offset_bits <= ADDRESS_LENGTH - 1) =>
        /\ IsTwoToThe(number_of_sets, set_index_bits)
        /\ \A address \in Addrs :
              /\ SetIndex(address)
                    = LowBits(Shr(address, block_offset_bits), set_index_bits)
              /\ SetIndex(address) >= 0
              /\ SetIndex(address) < number_of_sets
              /\ SetIndex(address) \in DOMAIN cache_memory

\* The table init_cache built is allocated (free_cache has not run) and has
\* at least one set, of at least one line.
TableBuilt ==
    /\ pc \in {"replay_trace", "fscanf"}
    /\ associativity >= 1
    /\ number_of_sets >= 1

\* The lines of the whole table that are valid, as (set, line) pairs.
AllValidLines ==
    {place \in (DOMAIN cache_memory) \X (0 .. associativity - 1) :
        cache_memory[place[1]][place[2]].is_valid # 0}

\* C18: while the table is allocated, the number of valid lines in it is
\* total_misses - total_evictions.
C18_ValidLinesAreMissesLessEvictions ==
    TableBuilt => Cardinality(AllValidLines) = total_misses - total_evictions

\* C18 witness: a table with 3 valid lines after 4 misses, one an eviction.
C18_Witness ==
    /\ TableBuilt
    /\ total_evictions >= 1
    /\ total_misses >= 4
    /\ Cardinality(AllValidLines) >= 3

\* The valid lines of a set are its lines 0 .. k-1, for some k.
ValidPrefix(group) ==
    \A line_index \in ValidLines(group) :
        \A k \in 0 .. line_index - 1 : k \in ValidLines(group)

\* No line of a table that stays allocated goes from valid to invalid.
ValidStaysValid ==
    \A set_index \in (DOMAIN cache_memory) \cap (DOMAIN cache_memory') :
        ValidLines(cache_memory[set_index]) \subseteq ValidLines(cache_memory'[set_index])

\* C19: no step and no access_data call turns a valid line invalid, and in
\* every set, between calls and after each call, the valid lines are a
\* prefix of the line indices.
C19_ValidLinesStayAndFormPrefix ==
    /\ [](/\ \A set_index \in DOMAIN cache_memory :
                ValidPrefix(cache_memory[set_index])
          /\ \A n \in 1 .. Len(hist) :
                /\ ValidLines(hist[n].before) \subseteq ValidLines(hist[n].after)
                /\ ValidPrefix(hist[n].after))
    /\ [][ValidStaysValid]_vars

\* C19 witness: a 2-way table with a full set, after an eviction and a hit,
\* and a set that holds one valid line, in line 0.
C19_Witness ==
    /\ TableBuilt
    /\ associativity = 2
    /\ total_evictions >= 1
    /\ total_hits >= 1
    /\ \E set_index \in DOMAIN cache_memory :
          ValidLines(cache_memory[set_index]) = {0, 1}
    /\ \E set_index \in DOMAIN cache_memory :
          ValidLines(cache_memory[set_index]) = {0}

\* C20: while the table is allocated, every invalid line has lru_counter 0,
\* every valid line has an lru_counter from 1 to global_lru_counter - 1, and
\* no two valid lines of the table have the same lru_counter.
C20_RecencyStamps ==
    TableBuilt =>
        /\ \A set_index \in DOMAIN cache_memory :
              \A line_index \in 0 .. associativity - 1 :
                  LET line == cache_memory[set_index][line_index]
                  IN  IF line.is_valid = 0
                      THEN line.lru_counter = 0
                      ELSE /\ line.lru_counter >= 1
                           /\ line.lru_counter <= global_lru_counter - 1
        /\ \A p \in AllValidLines :
              \A q \in AllValidLines :
                  p # q => cache_memory[p[1]][p[2]].lru_counter
                              # cache_memory[q[1]][q[2]].lru_counter

\* C20 witness: a 2-way table with valid lines in two sets and an invalid
\* line, after a hit restamped a line and an eviction replaced one.
C20_Witness ==
    /\ TableBuilt
    /\ associativity = 2
    /\ total_hits >= 1
    /\ total_evictions >= 1
    /\ Cardinality(AllValidLines) >= 3
    /\ Cardinality({p[1] : p \in AllValidLines}) >= 2
    /\ \E set_index \in DOMAIN cache_memory :
          cache_memory[set_index][1].is_valid = 0

====
